---- MODULE Spec2Model ----
(***************************************************************************)
(* Chatterbox: the session-authenticated messaging backend                 *)
(* (src/simple-backend/server.js on top of src/simple-backend/database.js).*)
(*                                                                         *)
(* Every HTTP request is a handler process.  A handler runs synchronously  *)
(* up to its first await / callback (action Start) and then one step per   *)
(* awaited store or session-store call, so handlers of different requests  *)
(* interleave exactly at the await points of the source.                   *)
(***************************************************************************)
EXTENDS Integers, Sequences, FiniteSets, TLC

VARIABLES
    loggedOut,  \* history: the client's session was logged out and not bound since
    dbReady,    \* server.js:79   let dbReady = false
    users,      \* the users table (prisma.user), rows in insertion order
    messages,   \* the messages table (prisma.message), rows in insertion order
    clock,      \* the store's now(), the default of messages.createdAt
    sessions,   \* the session store: cookie (one per client) -> bound username
    req,        \* the handler processes: request, position, locals, response
    faults,     \* whether store / session-store calls may fail in this run
    exited,     \* server.js:88  process.exit(1) has ended the server process
    client      \* the page of one browser: app.js, the auth and messages modules

vars ==
    <<loggedOut, dbReady, users, messages, clock, sessions, req, faults,
      exited, client>>

-----------------------------------------------------------------------------
(* Bounds of the model. *)

\* the messages table holds at most this many rows
MaxMessages == 2
\* the store clock runs from 0 to this value
MaxClock == 1
\* message rows inserted in a run of the authentication core
MaxSends == 1
\* fetches or timers of one kind that a page waits for at once
MaxPending == 1
\* inbox requests of initializeApp that a page waits for at once
MaxLoads == 2

\* handler processes that can be in flight at once
Procs == {1, 2}
\* browsers, each with its own cookie jar, hence its own session cookie
Clients == {"c1", "c2"}

-----------------------------------------------------------------------------
(* Values. *)

\* a JSON field that is missing from the request body, a session that
\* carries no username, an object property that does not exist
Undefined == "<undefined>"

\* JavaScript's !x for a value that is a string or undefined
Falsy(x) == x = Undefined \/ x = ""

\* x.length of a string
Length(x) == Len(x)

\* an operation of the HTTP surface
Ops == {"signup", "login", "logout", "me", "users", "send", "inbox", "sent"}

\* a request body: the fields the handlers destructure from req.body
NoBody ==
    [username |-> Undefined, password |-> Undefined,
     toUser |-> Undefined, subject |-> Undefined, body |-> Undefined,
     fromUser |-> Undefined]

\* the row a lookup yields when nothing matches (null)
Null == [id |-> 0]

\* no response sent yet
NoResponse == [status |-> 0, error |-> "", data |-> Undefined]

\* what was true when the request arrived (history, read by the properties
\* only): was the submitted username registered, had the client's session
\* been logged out and not been bound again
NoHistory == [taken |-> FALSE, afterLogout |-> FALSE, sess |-> Undefined]

\* a handler slot with no request in it
Idle ==
    [client |-> "", body |-> NoBody, sess |-> Undefined,
     pc |-> "idle", op |-> "", user |-> Null, resp |-> NoResponse,
     was |-> NoHistory]

-----------------------------------------------------------------------------
(* The store: src/simple-backend/database.js. *)

\* a lookup that finds no row, whatever the table holds
getUserByUsername_Absent(username) == Null

\* prisma.user.findUnique({ where: { username } }): the row, or null
getUserByUsername(username) ==
    IF \E i \in DOMAIN users : users[i].username = username
    THEN users[CHOOSE i \in DOMAIN users : users[i].username = username]
    ELSE Null

\* a users table without the unique constraint
UniqueViolation_Unchecked(username) == FALSE

\* the unique constraint on users.username rejects the insert
UniqueViolation(username) ==
    \E i \in DOMAIN users : users[i].username = username

\* an insert that replaces the rows of the table by the new row
createUser_Replacing(username, passwordHash) ==
    << [username |-> username, id |-> 1, passwordHash |-> passwordHash] >>

\* prisma.user.create({ data: { username, passwordHash } }): the table after
\* the insert; the row carries the model's field names
createUser(username, passwordHash) ==
    Append(users,
           [username |-> username, id |-> Len(users) + 1,
            passwordHash |-> passwordHash])

\* an insert that gives every row the same id
addMessage_SameId(fromUser, toUser, subject, body) ==
    Append(messages,
           [toUser |-> toUser, subject |-> subject, body |-> body,
            fromUser |-> fromUser, id |-> 1, createdAt |-> clock])

\* an insert that stores sender and recipient the wrong way round
addMessage_Swapped(fromUser, toUser, subject, body) ==
    Append(messages,
           [toUser |-> fromUser, subject |-> subject, body |-> body,
            fromUser |-> toUser, id |-> Len(messages) + 1,
            createdAt |-> clock])

\* prisma.message.create({ data: { fromUser, toUser, subject, body } }): the
\* table after the insert; id and createdAt are assigned by the store
addMessage(fromUser, toUser, subject, body) ==
    Append(messages,
           [toUser |-> toUser, subject |-> subject, body |-> body,
            fromUser |-> fromUser, id |-> Len(messages) + 1,
            createdAt |-> clock])

\* an ordering by creation time with the oldest row first
OrderByCreatedAtDesc_Ascending(idx) ==
    { s \in [1..Cardinality(idx) -> idx] :
        /\ \A i, j \in 1..Cardinality(idx) : i # j => s[i] # s[j]
        /\ \A i, j \in 1..Cardinality(idx) :
              i < j => messages[s[i]].createdAt <= messages[s[j]].createdAt }

\* the orders in which a query with orderBy { createdAt: 'desc' } may return
\* the rows at the positions idx: newest first, rows of equal createdAt in
\* whatever order the store picks
OrderByCreatedAtDesc(idx) ==
    { s \in [1..Cardinality(idx) -> idx] :
        /\ \A i, j \in 1..Cardinality(idx) : i # j => s[i] # s[j]
        /\ \A i, j \in 1..Cardinality(idx) :
              i < j => messages[s[i]].createdAt >= messages[s[j]].createdAt }

\* the rows at the positions s[1], s[2], ...
Rows(s) == [i \in DOMAIN s |-> messages[s[i]]]

\* prisma.message.findMany({ where: { toUser: username }, orderBy: ... }):
\* the results the store may return
getMessagesForUser(username) ==
    { Rows(s) : s \in OrderByCreatedAtDesc(
                    {i \in DOMAIN messages : messages[i].toUser = username}) }

\* prisma.message.findMany({ where: { fromUser: username }, orderBy: ... })
getMessagesFromUser(username) ==
    { Rows(s) : s \in OrderByCreatedAtDesc(
                    {i \in DOMAIN messages : messages[i].fromUser = username}) }

-----------------------------------------------------------------------------
(* Password hashing: bcrypt, an opaque one-way function with a verifier. *)

\* bcrypt.hash(password, 12): a value that is not the password itself
Hash(password) == "$2b$12$" \o password

\* user.password_hash: the property read of server.js:170 on a row returned
\* by getUserByUsername; a property the row does not have reads undefined
password_hash(user) ==
    IF "password_hash" \in DOMAIN user THEN user.password_hash ELSE Undefined

\* bcrypt.compare(data, hash): rejects when an argument is missing,
\* otherwise tells whether hash is a hash of data
Compare(data, hash) ==
    IF data = Undefined \/ hash = Undefined THEN "throws"
    ELSE IF hash = Hash(data) THEN "true" ELSE "false"

-----------------------------------------------------------------------------
(* Responses and guards: src/simple-backend/server.js. *)

\* res.status(status).json(...): the handler r has answered
Reply(r, status, error, data) ==
    [r EXCEPT !.pc = "done",
              !.resp = [status |-> status, error |-> error, data |-> data]]

\* the handler r waits for the call named by pc
Await(r, pc) == [r EXCEPT !.pc = pc]

\* a guard that lets every request through
requireAuth_Open(sess) == TRUE

\* requireAuth, server.js:68: does the guard let the request through
requireAuth(sess) == ~Falsy(sess)

\* the routes registered behind requireAuth
Protected == {"users", "send", "inbox", "sent"}

\* the outcomes a store or session-store call may have in this run
Outcomes == IF faults THEN {"ok", "error"} ELSE {"ok"}

\* a validation that forgets the password
SignupValidation_PasswordUnchecked(username, password) ==
    IF Falsy(username) \/ Length(username) < 3
    THEN "Username must be at least 3 characters"
    ELSE ""

\* signup's input validation, server.js:119-124: the error, or "" if valid
SignupValidation(username, password) ==
    IF Falsy(username) \/ Length(username) < 3
    THEN "Username must be at least 3 characters"
    ELSE IF Falsy(password) \/ Length(password) < 6
    THEN "Password must be at least 6 characters"
    ELSE ""

\* a check that forgets the body
SendFieldMissing_BodyUnchecked(toUser, subject, body) ==
    Falsy(toUser) \/ Falsy(subject)

\* is a field of a message missing; server.js:253
SendFieldMissing(toUser, subject, body) ==
    Falsy(toUser) \/ Falsy(subject) \/ Falsy(body)

\* a handler without the self-send check
SelfSend_Unchecked(toUser, fromUser) == FALSE

\* is the message addressed to its sender; server.js:257
SelfSend(toUser, fromUser) == toUser = fromUser

\* a sender that the request body may name
Sender_FromBody(r) ==
    IF r.body.fromUser # Undefined THEN r.body.fromUser ELSE r.sess

\* the sender of a message, server.js:251: const fromUser =
\* req.session.username
Sender(r) == r.sess

\* a validation that also rejects a recipient without an account
SendValidation_RecipientChecked(toUser, subject, body, fromUser) ==
    IF SendFieldMissing(toUser, subject, body)
    THEN "toUser, subject, and body are required"
    ELSE IF SelfSend(toUser, fromUser)
    THEN "Cannot send message to yourself"
    ELSE IF getUserByUsername(toUser) = Null
    THEN "Recipient not found"
    ELSE ""

\* send's input validation, server.js:253-259: the error, or "" if valid
SendValidation(toUser, subject, body, fromUser) ==
    IF SendFieldMissing(toUser, subject, body)
    THEN "toUser, subject, and body are required"
    ELSE IF SelfSend(toUser, fromUser)
    THEN "Cannot send message to yourself"
    ELSE ""

\* rows in the messages table plus the inserts already on their way
MessagesInFlight ==
    Len(messages) + Cardinality({p \in Procs : req[p].pc = "sm_insert"})

-----------------------------------------------------------------------------
(* The handlers. *)

\* a request: an operation with the body the client sends
Request(op, body) == [body |-> body, op |-> op]

\* the body of a signup or login request
Credentials(username, password) ==
    [NoBody EXCEPT !.username = username, !.password = password]

\* the body of a send-message request
Letter(toUser, subject, body) ==
    [NoBody EXCEPT !.toUser = toUser, !.subject = subject, !.body = body]

\* usernames and passwords that pass signup's validation
ValidUsernames == {"alice", "bob"}
ValidPasswords == {"secret1", "secret2"}

\* signup requests: every valid pair, and a username or a password that is
\* missing or too short
SignupRequests ==
    { Request("signup", Credentials(u, pw)) :
        u \in ValidUsernames, pw \in ValidPasswords }
    \cup { Request("signup", Credentials(u, "secret1")) : u \in {Undefined, "al"} }
    \cup { Request("signup", Credentials("alice", pw)) : pw \in {Undefined, "short"} }

\* login requests: usernames that may or may not be registered, with a
\* password that may or may not be the one signed up with
LoginRequests ==
    { Request("login", Credentials(u, pw)) :
        u \in ValidUsernames, pw \in ValidPasswords }

\* requests without a body
PlainRequests(ops) == { Request(op, NoBody) : op \in ops }

\* send requests: to an account, to the sender itself, to a name without an
\* account ("carol"), with a field missing or empty, and with a fromUser
\* field of the client's choice in the body
SendRequests(recipients) ==
    { Request("send", Letter(t, "Hi", "Hello")) : t \in recipients }
    \cup { Request("send", Letter(Undefined, "Hi", "Hello")),
           Request("send", Letter("carol", "", "Hello")),
           Request("send", Letter("carol", "Hi", Undefined)),
           Request("send", [Letter("carol", "Hi", "Hello")
                              EXCEPT !.fromUser = "zoe"]) }

\* an identity body that always reports an anonymous session
Identity_AlwaysAnonymous(sess) == [authenticated |-> FALSE, user |-> Undefined]

\* GET /me, server.js:210-218: the body answered for the session's username
Identity(sess) ==
    IF ~Falsy(sess)
    THEN [authenticated |-> TRUE, user |-> sess]
    ELSE [authenticated |-> FALSE, user |-> Undefined]

\* the synchronous part of the handler of request r, from the middleware chain
\* (session, dbReady gate, requireAuth) to the handler's first await
Dispatch(r) ==
    IF ~dbReady
    THEN Reply(r, 503, "Service temporarily unavailable", Undefined)
    ELSE IF r.op \in Protected /\ ~requireAuth(r.sess)
    THEN Reply(r, 401, "Not authenticated", Undefined)
    ELSE CASE r.op = "signup" ->
                IF SignupValidation(r.body.username, r.body.password) # ""
                THEN Reply(r, 400,
                           SignupValidation(r.body.username, r.body.password),
                           Undefined)
                ELSE Await(r, "su_lookup")
           [] r.op = "login" -> Await(r, "li_lookup")
           [] r.op = "logout" -> Await(r, "lo_destroy")
           [] r.op = "me" ->
                Reply(r, 200, "", Identity(r.sess))
           [] r.op = "users" -> Await(r, "us_query")
           [] r.op = "send" ->
                IF SendValidation(r.body.toUser, r.body.subject, r.body.body,
                                  Sender(r)) # ""
                THEN Reply(r, 400,
                           SendValidation(r.body.toUser, r.body.subject,
                                          r.body.body, Sender(r)),
                           Undefined)
                ELSE Await(r, "sm_insert")
           [] r.op = "inbox" -> Await(r, "ib_query")
           [] r.op = "sent" -> Await(r, "st_query")

\* a process that goes on serving after process.exit
Running_AfterExit == TRUE

\* the server process has not ended
Running == ~exited

\* no response is on its way to a client: a response is delivered (Release)
\* before the server takes its next step
Quiet == \A q \in Procs : req[q].pc # "done"

\* does the handler of r become an insert into the messages table
Inserts(r) == Dispatch(r).pc = "sm_insert"

\* the requests handler p serves of the authentication core
Requests(p) ==
    IF p = 1
    THEN SignupRequests \cup LoginRequests
         \cup PlainRequests({"logout", "me", "users", "inbox", "sent"})
         \cup SendRequests({"carol"})
    ELSE { Request("signup", Credentials("alice", pw)) : pw \in ValidPasswords }
         \cup PlainRequests({"logout"})

\* the requests handler p serves of the message core
RequestsMsg(p) ==
    IF p = 1
    THEN SendRequests({"alice", "bob", "carol"})
         \cup PlainRequests({"inbox", "sent"})
    ELSE { Request("send", Letter(t, "Re", "World")) : t \in {"alice", "bob"} }

\* the requests that can arrive at handler p of a core
Arrivals(core, p) == IF core = "msg" THEN RequestsMsg(p) ELSE Requests(p)

\* a request arrives at handler p of a core: the session middleware loads
\* the session of the client's cookie, then the handler runs to its first
\* await; at most maxRows message rows are ever asked for
StartIn(p, core, maxRows) ==
    /\ Running
    /\ Quiet
    /\ req[p].pc = "idle"
    /\ \E c \in Clients, rq \in Arrivals(core, p) :
         LET r == [Idle EXCEPT
                     !.op = rq.op, !.client = c, !.body = rq.body,
                     !.sess = sessions[c],
                     !.was = [taken |-> UniqueViolation(rq.body.username),
                              afterLogout |-> loggedOut[c],
                              sess |-> sessions[c]]]
         IN  /\ Inserts(r) => MessagesInFlight < maxRows
             /\ req' = [req EXCEPT ![p] = Dispatch(r)]
    /\ UNCHANGED <<loggedOut, dbReady, users, messages, clock, sessions, faults,
                 exited, client>>

\* POST /signup, server.js:127-130: await getUserByUsername(username)
SignupLookup(p) ==
    /\ Running
    /\ Quiet
    /\ req[p].pc = "su_lookup"
    /\ \E out \in Outcomes :
         req' = [req EXCEPT ![p] =
            IF out = "error"
            THEN Reply(@, 500, "Internal server error", Undefined)
            ELSE IF getUserByUsername(@.body.username) # Null
            THEN Reply(@, 409, "Username already taken", Undefined)
            ELSE Await(@, "su_create")]
    /\ UNCHANGED <<loggedOut, dbReady, users, messages, clock, sessions, faults,
                 exited, client>>

\* POST /signup, server.js:133-137: await bcrypt.hash, await createUser, then
\* req.session.username = user.username and req.session.save is issued
SignupCreate(p) ==
    /\ Running
    /\ Quiet
    /\ req[p].pc = "su_create"
    /\ \E out \in Outcomes :
         IF out = "error" \/ UniqueViolation(req[p].body.username)
         THEN /\ req' = [req EXCEPT ![p] =
                    Reply(@, 500, "Internal server error", Undefined)]
              /\ UNCHANGED users
         ELSE /\ users' = createUser(req[p].body.username,
                                     Hash(req[p].body.password))
              /\ req' = [req EXCEPT ![p] =
                    Await([@ EXCEPT !.sess = req[p].body.username], "save")]
    /\ UNCHANGED <<loggedOut, dbReady, messages, clock, sessions, faults,
                 exited, client>>

\* a login handler that ends the caller's session when it finds no account
LoginLookup_DropsSession(p) ==
    /\ Running
    /\ Quiet
    /\ req[p].pc = "li_lookup"
    /\ \E out \in Outcomes :
         IF out = "error"
         THEN /\ req' = [req EXCEPT ![p] =
                    Reply(@, 500, "Internal server error", Undefined)]
              /\ UNCHANGED sessions
         ELSE IF getUserByUsername(req[p].body.username) = Null
         THEN /\ req' = [req EXCEPT ![p] =
                    Reply(@, 401, "Invalid credentials", Undefined)]
              /\ sessions' = [sessions EXCEPT ![req[p].client] = Undefined]
         ELSE /\ req' = [req EXCEPT ![p] =
                    Await([@ EXCEPT !.user =
                               getUserByUsername(req[p].body.username)],
                          "li_compare")]
              /\ UNCHANGED sessions
    /\ UNCHANGED <<loggedOut, dbReady, users, messages, clock, faults,
                 exited, client>>

\* POST /login, server.js:165-168: await getUserByUsername(username)
LoginLookup(p) ==
    /\ Running
    /\ Quiet
    /\ req[p].pc = "li_lookup"
    /\ \E out \in Outcomes :
         req' = [req EXCEPT ![p] =
            IF out = "error"
            THEN Reply(@, 500, "Internal server error", Undefined)
            ELSE IF getUserByUsername(@.body.username) = Null
            THEN Reply(@, 401, "Invalid credentials", Undefined)
            ELSE Await([@ EXCEPT !.user = getUserByUsername(req[p].body.username)],
                       "li_compare")]
    /\ UNCHANGED <<loggedOut, dbReady, users, messages, clock, sessions, faults,
                 exited, client>>

\* POST /login, server.js:170-178: await bcrypt.compare(password,
\* user.password_hash), then req.session.username = user.username and
\* req.session.save is issued
LoginCompare(p) ==
    /\ Running
    /\ Quiet
    /\ req[p].pc = "li_compare"
    /\ req' = [req EXCEPT ![p] =
          CASE Compare(@.body.password, password_hash(@.user)) = "throws" ->
                 Reply(@, 500, "Internal server error", Undefined)
            [] Compare(@.body.password, password_hash(@.user)) = "false" ->
                 Reply(@, 401, "Invalid credentials", Undefined)
            [] OTHER ->
                 Await([@ EXCEPT !.sess = req[p].user.username], "save")]
    /\ UNCHANGED <<loggedOut, dbReady, users, messages, clock, sessions, faults,
                 exited, client>>

\* a signup that takes its user row back when the session cannot be saved
SessionSave_RollsBack(p) ==
    /\ Running
    /\ Quiet
    /\ req[p].pc = "save"
    /\ \E out \in Outcomes :
         IF out = "error"
         THEN /\ req' = [req EXCEPT ![p] =
                    Reply(@, 500, "Failed to create session", Undefined)]
              /\ users' = IF req[p].op = "signup"
                          THEN SelectSeq(users,
                                 LAMBDA u : u.username # req[p].body.username)
                          ELSE users
              /\ UNCHANGED <<sessions, loggedOut>>
         ELSE /\ sessions' = [sessions EXCEPT ![req[p].client] = req[p].sess]
              /\ loggedOut' = [loggedOut EXCEPT ![req[p].client] = FALSE]
              /\ req' = [req EXCEPT ![p] =
                    Reply(@, IF @.op = "signup" THEN 201 ELSE 200, "",
                          [authenticated |-> TRUE, user |-> @.sess])]
              /\ UNCHANGED users
    /\ UNCHANGED <<dbReady, messages, clock, faults, exited, client>>

\* the callback of req.session.save, server.js:139-151 and 178-190
SessionSave(p) ==
    /\ Running
    /\ Quiet
    /\ req[p].pc = "save"
    /\ \E out \in Outcomes :
         IF out = "error"
         THEN /\ req' = [req EXCEPT ![p] =
                    Reply(@, 500, "Failed to create session", Undefined)]
              /\ UNCHANGED <<sessions, loggedOut>>
         ELSE /\ sessions' = [sessions EXCEPT ![req[p].client] = req[p].sess]
              /\ loggedOut' = [loggedOut EXCEPT ![req[p].client] = FALSE]
              /\ req' = [req EXCEPT ![p] =
                    Reply(@, IF @.op = "signup" THEN 201 ELSE 200, "",
                          [authenticated |-> TRUE, user |-> @.sess])]
    /\ UNCHANGED <<dbReady, users, messages, clock, faults,
                 exited, client>>

\* a destroy that removes the record of every session
destroy_All(c) == [d \in Clients |-> Undefined]

\* a destroy that leaves the record in the store
destroy_Kept(c) == sessions

\* the session store after req.session.destroy for the cookie of client c
destroy(c) == [sessions EXCEPT ![c] = Undefined]

\* POST /logout, server.js:198-206: the callback of req.session.destroy
\* a logout that reports the failure of destroy to the caller
LogoutReply_ErrorSurfaced(r, out) ==
    IF out = "error"
    THEN Reply(r, 500, "Logout failed", Undefined)
    ELSE Reply(r, 200, "", "Logged out")

\* POST /logout, server.js:200-205: the callback of destroy logs the error
\* and answers the same body either way
LogoutReply(r, out) == Reply(r, 200, "", "Logged out")

\* POST /logout, server.js:199-205: req.session.destroy and its callback
LogoutDestroy(p) ==
    /\ Running
    /\ Quiet
    /\ req[p].pc = "lo_destroy"
    /\ \E out \in Outcomes :
         /\ IF out = "error"
            THEN UNCHANGED <<sessions, loggedOut>>
            ELSE /\ sessions' = destroy(req[p].client)
                 /\ loggedOut' = [loggedOut EXCEPT ![req[p].client] =
                                     @ \/ sessions[req[p].client] # Undefined]
         /\ req' = [req EXCEPT ![p] = LogoutReply(@, out)]
    /\ UNCHANGED <<dbReady, users, messages, clock, faults,
                 exited, client>>

\* the usernames the users table of ./message.db may hold: the SQLite file
\* GET /users opens is a store of its own, which no handler of this server
\* writes
LegacyTables == { {}, {"bob", "zoe"} }

\* the usernames of the model in ascending order
Alphabet == <<"al", "alice", "bob", "carol", "zoe">>

\* ORDER BY username ASC over a set of usernames
OrderByUsernameAsc(names) == SelectSeq(Alphabet, LAMBDA n : n \in names)

\* GET /users, server.js:228-230: SELECT username FROM users WHERE
\* username != ? ORDER BY username ASC, the parameter being the caller's name
LegacyUsers(table, currentUser) == OrderByUsernameAsc(table \ {currentUser})

\* GET /users, server.js:224-238: the callback of db.all
UsersQuery(p) ==
    /\ Running
    /\ Quiet
    /\ req[p].pc = "us_query"
    /\ \E out \in Outcomes \cup {"error"}, table \in LegacyTables :
         req' = [req EXCEPT ![p] =
            IF out = "error"
            THEN Reply(@, 500, "Failed to load users", Undefined)
            ELSE Reply(@, 200, "", LegacyUsers(table, req[p].sess))]
    /\ UNCHANGED <<loggedOut, dbReady, users, messages, clock, sessions, faults,
                 exited, client>>

\* a send handler whose failed insert leaves a row without subject and body
SendInsert_PartialRow(p) ==
    /\ Running
    /\ Quiet
    /\ req[p].pc = "sm_insert"
    /\ \E out \in Outcomes :
         IF out = "error"
         THEN /\ req' = [req EXCEPT ![p] =
                    Reply(@, 500, "Failed to send message", Undefined)]
              /\ messages' = addMessage(Sender(req[p]), req[p].body.toUser,
                                        "", "")
         ELSE /\ messages' = addMessage(Sender(req[p]), req[p].body.toUser,
                                        req[p].body.subject, req[p].body.body)
              /\ req' = [req EXCEPT ![p] =
                    Reply(@, 201, "", Len(messages) + 1)]
    /\ UNCHANGED <<loggedOut, dbReady, users, clock, sessions, faults,
                 exited, client>>

\* POST /api/send-message, server.js:261-262: await addMessage(...)
SendInsert(p) ==
    /\ Running
    /\ Quiet
    /\ req[p].pc = "sm_insert"
    /\ \E out \in Outcomes :
         IF out = "error"
         THEN /\ req' = [req EXCEPT ![p] =
                    Reply(@, 500, "Failed to send message", Undefined)]
              /\ UNCHANGED messages
         ELSE /\ messages' = addMessage(Sender(req[p]), req[p].body.toUser,
                                        req[p].body.subject, req[p].body.body)
              /\ req' = [req EXCEPT ![p] =
                    Reply(@, 201, "", Len(messages) + 1)]
    /\ UNCHANGED <<loggedOut, dbReady, users, clock, sessions, faults,
                 exited, client>>

\* an inbox handler that ends the caller's session when it answers
InboxQuery_DropsSession(p) ==
    /\ Running
    /\ Quiet
    /\ req[p].pc = "ib_query"
    /\ \E rows \in getMessagesForUser(req[p].sess) :
          req' = [req EXCEPT ![p] = Reply(@, 200, "", rows)]
    /\ sessions' = destroy(req[p].client)
    /\ UNCHANGED <<loggedOut, dbReady, users, messages, clock, faults,
                 exited, client>>

\* GET /api/messages/inbox, server.js:272-273: await getMessagesForUser
InboxQuery(p) ==
    /\ Running
    /\ Quiet
    /\ req[p].pc = "ib_query"
    /\ \E out \in Outcomes :
         IF out = "error"
         THEN req' = [req EXCEPT ![p] =
                 Reply(@, 500, "Failed to get messages", Undefined)]
         ELSE \E rows \in getMessagesForUser(req[p].sess) :
                 req' = [req EXCEPT ![p] = Reply(@, 200, "", rows)]
    /\ UNCHANGED <<loggedOut, dbReady, users, messages, clock, sessions, faults,
                 exited, client>>

\* GET /api/messages/sent, server.js:283-284: await getMessagesFromUser
SentQuery(p) ==
    /\ Running
    /\ Quiet
    /\ req[p].pc = "st_query"
    /\ \E out \in Outcomes :
         IF out = "error"
         THEN req' = [req EXCEPT ![p] =
                 Reply(@, 500, "Failed to get sent messages", Undefined)]
         ELSE \E rows \in getMessagesFromUser(req[p].sess) :
                 req' = [req EXCEPT ![p] = Reply(@, 200, "", rows)]
    /\ UNCHANGED <<loggedOut, dbReady, users, messages, clock, sessions, faults,
                 exited, client>>

\* the response has reached the client; the handler is gone
Release(p) ==
    /\ Running
    /\ req[p].pc = "done"
    /\ req' = [req EXCEPT ![p] = Idle]
    /\ UNCHANGED <<loggedOut, dbReady, users, messages, clock, sessions, faults,
                 exited, client>>

-----------------------------------------------------------------------------
(* The environment. *)

\* initializeDatabase() settles, server.js:81-89: resolved, dbReady becomes
\* true; rejected (prisma.$connect failed, database.js:8-14), the catch
\* callback ends the process
DbInit ==
    /\ Running
    /\ ~dbReady
    /\ \E out \in Outcomes :
         IF out = "error"
         THEN exited' = TRUE /\ UNCHANGED dbReady
         ELSE Quiet /\ dbReady' = TRUE /\ UNCHANGED exited
    /\ UNCHANGED <<loggedOut, users, messages, clock, sessions, req, faults,
                 client>>

\* time passes at the store
Tick ==
    /\ Running
    /\ Quiet
    /\ clock < MaxClock
    /\ clock' = clock + 1
    /\ UNCHANGED <<loggedOut, dbReady, users, messages, sessions, req, faults,
                 exited, client>>

\* the session of client c reaches the end of its maxAge, server.js:56
Expire(c) ==
    /\ Running
    /\ Quiet
    /\ sessions[c] # Undefined
    /\ sessions' = [sessions EXCEPT ![c] = Undefined]
    /\ UNCHANGED <<loggedOut, dbReady, users, messages, clock, req, faults,
                 exited, client>>

-----------------------------------------------------------------------------
(* The browser page: src/simple-frontend/js/app.js, the auth module        *)
(* (src/unnamed/part_001) and the messages module (the part of             *)
(* src/simple-backend/server.js from line 297 on).  The page is one        *)
(* JavaScript thread: a step is a callback that runs to its next await or  *)
(* to its end (a DOM event, a timer that fires, a response to a fetch).    *)

\* what the page can be waiting for: the response to a fetch, by the
\* function that awaits it, or a timer set with setTimeout
Tasks ==
    {"check", "login", "signup", "verify", "initTimer", "initLoad",
     "tabLoad", "refresh", "logoutTimer", "logout", "logoutButton",
     "outTimer"}

\* a page that has not been opened: the module state of app.js:7-10,
\* window.isAuthenticated (unset, so falsy), the section that is shown
\* ("out" the login and signup forms, "in" the application), what the page
\* waits for, the bodies of initializeApp started since the last resetApp,
\* and whether a load has failed with 'Not authenticated' since the flag
\* was last set
NoPage ==
    [isAuthenticated |-> FALSE, appInitialized |-> FALSE,
     currentTab |-> "inbox", view |-> "out",
     tasks |-> [t \in Tasks |-> 0], bodies |-> 0, failed |-> FALSE]

\* the page waits for a response or a timer of kind t
Pending(t) == client.tasks[t] > 0

\* one more fetch or timer of kind t can be waited for
Room(t) ==
    client.tasks[t] < (IF t = "initLoad" THEN MaxLoads ELSE MaxPending)

\* how a fetch of /me, of /login or /signup, and of a list can end: the
\* answer of the route, 401 'Not authenticated' of requireAuth, or any
\* other rejection of apiRequest
MeResponses == {"authenticated", "anonymous", "error"}
AuthResponses == {"ok", "error"}
LoadResponses == {"ok", "Not authenticated", "error"}

\* the tabs of the application
Tabs == {"inbox", "sent", "compose"}

\* the server's variables, which no step of the page changes
server == <<loggedOut, dbReady, users, messages, clock, sessions, req, faults,
            exited>>

\* the submit listener of the login or signup form, part_001:291-330: the
\* forms are shown in the logged-out view; login() or signup() runs to its
\* await on the request
Submit(form) ==
    /\ client.view = "out"
    /\ Room(form)
    /\ client' = [client EXCEPT !.tasks[form] = @ + 1]
    /\ UNCHANGED server

\* a login or signup that starts the application without asking /me
AuthResponse_Unverified(form) ==
    /\ Pending(form)
    /\ Room("initTimer")
    /\ client' = [client EXCEPT !.tasks[form] = @ - 1,
                                !.view = "in",
                                !.isAuthenticated = TRUE,
                                !.failed = FALSE,
                                !.tasks["initTimer"] = @ + 1]
    /\ UNCHANGED server

\* login() and signup() after their await, part_001:146-176 and 189-222:
\* on success the logged-in view is shown, the flag is set and
\* verifySessionAndInitialize runs to its await on /me; a rejection only
\* shows an alert
AuthResponse(form) ==
    /\ Pending(form)
    /\ \E r \in AuthResponses :
         IF r = "ok"
         THEN /\ Room("verify")
              /\ client' = [client EXCEPT !.tasks[form] = @ - 1,
                                          !.view = "in",
                                          !.isAuthenticated = TRUE,
                                          !.failed = FALSE,
                                          !.tasks["verify"] = @ + 1]
         ELSE client' = [client EXCEPT !.tasks[form] = @ - 1]
    /\ UNCHANGED server

\* verifySessionAndInitialize after its await, part_001:365-392: a
\* confirmed session sets the 100 ms timer of initializeApp; anything else
\* clears the flag and sets the 1500 ms timer of showLoggedOutState
VerifyResponse ==
    /\ Pending("verify")
    /\ \E r \in MeResponses :
         IF r = "authenticated"
         THEN /\ Room("initTimer")
              /\ client' = [client EXCEPT !.tasks["verify"] = @ - 1,
                                          !.tasks["initTimer"] = @ + 1]
         ELSE /\ Room("outTimer")
              /\ client' = [client EXCEPT !.tasks["verify"] = @ - 1,
                                          !.isAuthenticated = FALSE,
                                          !.tasks["outTimer"] = @ + 1]
    /\ UNCHANGED server

\* the timer of part_001:387-389 fires: showLoggedOutState
OutTimer ==
    /\ Pending("outTimer")
    /\ client' = [client EXCEPT !.tasks["outTimer"] = @ - 1, !.view = "out"]
    /\ UNCHANGED server

\* checkAuthStatus after its await, part_001:253-282 (it is called once,
\* on DOMContentLoaded, part_001:353)
CheckResponse ==
    /\ Pending("check")
    /\ \E r \in MeResponses :
         IF r = "authenticated"
         THEN /\ Room("initTimer")
              /\ client' = [client EXCEPT !.tasks["check"] = @ - 1,
                                          !.view = "in",
                                          !.isAuthenticated = TRUE,
                                          !.failed = FALSE,
                                          !.tasks["initTimer"] = @ + 1]
         ELSE client' = [client EXCEPT !.tasks["check"] = @ - 1,
                                      !.isAuthenticated = FALSE,
                                      !.view = "out"]
    /\ UNCHANGED server

\* the 100 ms timer fires: initializeApp, app.js:113-125, returns when
\* appInitialized is set, else registers the tab listeners and runs to the
\* await on the inbox request of loadTabContent('inbox')
initializeApp ==
    /\ Pending("initTimer")
    /\ IF client.appInitialized
       THEN client' = [client EXCEPT !.tasks["initTimer"] = @ - 1]
       ELSE /\ Room("initLoad")
            /\ client' = [client EXCEPT !.tasks["initTimer"] = @ - 1,
                                        !.bodies = @ + 1,
                                        !.tasks["initLoad"] = @ + 1]
    /\ UNCHANGED server

\* the catch block of loadInboxMessages, loadSentMessages and loadUsers
\* (server.js:384-403, 455-474, 512-527) for the response r: 'Not
\* authenticated' clears the flag and sets the 1500 ms timer of
\* window.logout
LoadFailure(page, r) ==
    IF r = "Not authenticated"
    THEN [page EXCEPT !.isAuthenticated = FALSE,
                      !.failed = TRUE,
                      !.tasks["logoutTimer"] = @ + 1]
    ELSE page

\* the inbox request of initializeApp is answered: loadTabContent catches
\* what loadInboxMessages throws (app.js:81-84), so initializeApp goes on
\* to appInitialized = true (app.js:127-128) in the same turn
InitLoadResponse ==
    /\ Pending("initLoad")
    /\ \E r \in LoadResponses :
         /\ r = "Not authenticated" => Room("logoutTimer")
         /\ client' = [LoadFailure(client, r) EXCEPT
                         !.tasks["initLoad"] = @ - 1,
                         !.appInitialized = TRUE]
    /\ UNCHANGED server

\* a click on a tab of the application (the listeners are registered by
\* setupApp on DOMContentLoaded, app.js:346): showTab, app.js:21-57
showTab(tabName) ==
    /\ client.view = "in"
    /\ Room("tabLoad")
    /\ client' = [client EXCEPT !.currentTab = tabName,
                                !.tasks["tabLoad"] = @ + 1]
    /\ UNCHANGED server

\* the request of a tab's list is answered
TabLoadResponse ==
    /\ Pending("tabLoad")
    /\ \E r \in LoadResponses :
         /\ r = "Not authenticated" => Room("logoutTimer")
         /\ client' = [LoadFailure(client, r) EXCEPT
                         !.tasks["tabLoad"] = @ - 1]
    /\ UNCHANGED server

\* the condition of the interval callback as it was before the flag was
\* added (app.js:218)
RefreshGuard_NoAuthFlag ==
    client.appInitialized /\ client.currentTab = "inbox"

\* the condition of the interval callback, app.js:219
RefreshGuard ==
    /\ client.appInitialized
    /\ client.currentTab = "inbox"
    /\ client.isAuthenticated

\* the 30 s interval of setupAutoRefresh fires, app.js:217-230, and the
\* condition holds: the inbox request is issued
AutoRefresh ==
    /\ RefreshGuard
    /\ Room("refresh")
    /\ client' = [client EXCEPT !.tasks["refresh"] = @ + 1]
    /\ UNCHANGED server

\* the inbox request of the auto-refresh is answered; its own catch
\* (app.js:222-228) clears the flag once more
RefreshResponse ==
    /\ Pending("refresh")
    /\ \E r \in LoadResponses :
         /\ r = "Not authenticated" => Room("logoutTimer")
         /\ client' = [LoadFailure(client, r) EXCEPT
                         !.tasks["refresh"] = @ - 1]
    /\ UNCHANGED server

\* the 1500 ms timer of a failed load fires: window.logout, which is the
\* override of app.js:373-377 (app.js is loaded after the auth module),
\* runs into logout(), part_001:225-234, to its await on POST /logout
LogoutTimer ==
    /\ Pending("logoutTimer")
    /\ Room("logout")
    /\ client' = [client EXCEPT !.tasks["logoutTimer"] = @ - 1,
                                !.isAuthenticated = FALSE,
                                !.tasks["logout"] = @ + 1]
    /\ UNCHANGED server

\* resetApp, app.js:142-154
resetApp(page) ==
    [page EXCEPT !.appInitialized = FALSE,
                 !.currentTab = "inbox",
                 !.isAuthenticated = FALSE,
                 !.bodies = 0]

\* POST /logout of window.logout is answered or fails: logout() shows the
\* logged-out view either way (part_001:236-243), then the override calls
\* resetApp (app.js:376)
LogoutResponse ==
    /\ Pending("logout")
    /\ client' = resetApp([client EXCEPT !.tasks["logout"] = @ - 1,
                                         !.view = "out"])
    /\ UNCHANGED server

\* a click on the logout button, whose listener is logout() itself
\* (part_001:334), not the override: no resetApp follows
ClickLogout ==
    /\ client.view = "in"
    /\ Room("logoutButton")
    /\ client' = [client EXCEPT !.isAuthenticated = FALSE,
                                !.tasks["logoutButton"] = @ + 1]
    /\ UNCHANGED server

\* POST /logout of the logout button is answered or fails
LogoutButtonResponse ==
    /\ Pending("logoutButton")
    /\ client' = [client EXCEPT !.tasks["logoutButton"] = @ - 1,
                                !.view = "out"]
    /\ UNCHANGED server

-----------------------------------------------------------------------------
(* The specification of the authentication core: every operation of the    *)
(* HTTP surface, from the start of the process on.  Handler 1 serves any   *)
(* request; handler 2, in flight at the same time, serves the requests     *)
(* that contend with it: a signup of the same username and a logout (two   *)
(* handlers that only read do not affect each other).                      *)

Init ==
    /\ loggedOut = [c \in Clients |-> FALSE]
    /\ dbReady = FALSE
    /\ users = <<>>
    /\ messages = <<>>
    /\ clock = 0
    /\ sessions = [c \in Clients |-> Undefined]
    /\ req = [p \in Procs |-> Idle]
    /\ faults = FALSE
    /\ exited = FALSE
    /\ client = NoPage

Start(p) == StartIn(p, "auth", MaxSends)

Step(p) ==
    \/ Start(p)
    \/ SignupLookup(p)
    \/ SignupCreate(p)
    \/ LoginLookup(p)
    \/ LoginCompare(p)
    \/ SessionSave(p)
    \/ LogoutDestroy(p)
    \/ UsersQuery(p)
    \/ SendInsert(p)
    \/ InboxQuery(p)
    \/ SentQuery(p)
    \/ Release(p)

Next ==
    \/ DbInit
    \/ \E c \in Clients : Expire(c)
    \/ \E p \in Procs : Step(p)

Spec == Init /\ [][Next]_vars

\* the same server with a store and a session store whose calls may fail
InitFaults ==
    /\ loggedOut = [c \in Clients |-> FALSE]
    /\ dbReady = FALSE
    /\ users = <<>>
    /\ messages = <<>>
    /\ clock = 0
    /\ sessions = [c \in Clients |-> Undefined]
    /\ req = [p \in Procs |-> Idle]
    /\ faults = TRUE
    /\ exited = FALSE
    /\ client = NoPage

SpecFaults == InitFaults /\ [][Next]_vars

-----------------------------------------------------------------------------
(* The specification of the message core: sending and retrieving, from a   *)
(* state of the authentication core in which alice and bob have signed up, *)
(* each from a browser of their own.  Handler 1 serves any message         *)
(* request; handler 2, in flight at the same time, serves sends.           *)

InitMsg ==
    /\ loggedOut = [c \in Clients |-> FALSE]
    /\ dbReady = TRUE
    /\ users = << [username |-> "alice", id |-> 1,
                   passwordHash |-> Hash("secret1")],
                  [username |-> "bob", id |-> 2,
                   passwordHash |-> Hash("secret2")] >>
    /\ messages = <<>>
    /\ clock = 0
    /\ sessions = [c \in Clients |-> IF c = "c1" THEN "alice" ELSE "bob"]
    /\ req = [p \in Procs |-> Idle]
    /\ faults = FALSE
    /\ exited = FALSE
    /\ client = NoPage

StartMsg(p) == StartIn(p, "msg", MaxMessages)

StepMsg(p) ==
    \/ StartMsg(p)
    \/ SendInsert(p)
    \/ InboxQuery(p)
    \/ SentQuery(p)
    \/ Release(p)

NextMsg ==
    \/ Tick
    \/ \E p \in Procs : StepMsg(p)

SpecMsg == InitMsg /\ [][NextMsg]_vars

-----------------------------------------------------------------------------
(* The specification of the page: one page from DOMContentLoaded on, when  *)
(* initializeAuth has called checkAuthStatus (part_001:347-355) and        *)
(* setupApp has registered the tab listeners and the auto-refresh interval *)
(* (app.js:342-363).  The server is whatever answers the fetches: every    *)
(* request gets any of the answers its route can give.                     *)

InitPage ==
    /\ loggedOut = [c \in Clients |-> FALSE]
    /\ dbReady = FALSE
    /\ users = <<>>
    /\ messages = <<>>
    /\ clock = 0
    /\ sessions = [c \in Clients |-> Undefined]
    /\ req = [p \in Procs |-> Idle]
    /\ faults = FALSE
    /\ exited = FALSE
    /\ client = [NoPage EXCEPT !.tasks["check"] = 1]

\* what the user does
UserStep ==
    \/ \E form \in {"login", "signup"} : Submit(form)
    \/ \E tabName \in Tabs : showTab(tabName)
    \/ ClickLogout

\* a timer fires
TimerStep ==
    \/ initializeApp
    \/ OutTimer
    \/ LogoutTimer
    \/ AutoRefresh

\* a fetch is answered or fails
ResponseStep ==
    \/ \E form \in {"login", "signup"} : AuthResponse(form)
    \/ VerifyResponse
    \/ CheckResponse
    \/ InitLoadResponse
    \/ TabLoadResponse
    \/ RefreshResponse
    \/ LogoutResponse
    \/ LogoutButtonResponse

NextPage ==
    \/ UserStep
    \/ TimerStep
    \/ ResponseStep

SpecPage == InitPage /\ [][NextPage]_vars

\* the same page in a browser whose timers fire and whose fetches settle:
\* a timer that is set fires, and a fetch is answered or rejected
SpecPageFair ==
    /\ SpecPage
    /\ WF_vars(initializeApp)
    /\ WF_vars(OutTimer)
    /\ WF_vars(LogoutTimer)
    /\ \A form \in {"login", "signup"} : WF_vars(AuthResponse(form))
    /\ WF_vars(VerifyResponse)
    /\ WF_vars(CheckResponse)
    /\ WF_vars(InitLoadResponse)
    /\ WF_vars(TabLoadResponse)
    /\ WF_vars(RefreshResponse)
    /\ WF_vars(LogoutResponse)
    /\ WF_vars(LogoutButtonResponse)

-----------------------------------------------------------------------------
(* Properties.                                                             *)

\* the handler p has answered; until the response is delivered nothing else
\* happens, so the state is the one the handler answered in
Done(p) == req[p].pc = "done"

\* the handler p holds a request
Busy(p) == req[p].pc # "idle"

\* the handler p has answered with this status and error message
Answered(p, status, error) ==
    Done(p) /\ req[p].resp.status = status /\ req[p].resp.error = error

\* no other handler holds a request: every earlier request has completed
Alone(p) == \A q \in Procs \ {p} : ~Busy(q)

\* the request of handler p passes signup's validation
ValidSignup(p) ==
    /\ req[p].op = "signup"
    /\ SignupValidation(req[p].body.username, req[p].body.password) = ""

(* C1: for every unused username of length >= 3 and every password of     *)
(* length >= 6, signup succeeds and binds the session, a later login with *)
(* the same username and password succeeds, and whoami returns the        *)
(* username while the session is live.  Stated here for the step that     *)
(* decides it: once the signup has completed, a login that submits the    *)
(* username and the password signed up with is answered 200 with that     *)
(* identity.                                                              *)
C1_LoginWithSignupCredentialsSucceeds ==
    \A p \in Procs :
        /\ Done(p)
        /\ Alone(p)
        /\ req[p].op = "login"
        /\ req[p].user # Null
        /\ req[p].user.passwordHash = Hash(req[p].body.password)
        => /\ req[p].resp.status = 200
           /\ req[p].resp.data =
                [authenticated |-> TRUE, user |-> req[p].body.username]

(* C2, as stated: a signup for a username that is already registered, the *)
(* first signup having completed, is answered 409 'Username already       *)
(* taken'.                                                                *)
C2_SecondSignupAnswersConflict ==
    \A p \in Procs :
        Done(p) /\ Alone(p) /\ req[p].op = "signup" /\ req[p].was.taken
        => Answered(p, 409, "Username already taken")

(* C2, amended: a signup for a username that is already registered when   *)
(* the request arrives is answered 409 'Username already taken' if its    *)
(* password has at least 6 characters and with the validation error (400) *)
(* otherwise; either way the request never gets to the insert or to the   *)
(* session save, and the table keeps exactly one row of that username.    *)
C2_SecondSignupRejected ==
    \A p \in Procs :
        Busy(p) /\ req[p].op = "signup" /\ req[p].was.taken
        => /\ req[p].pc \in {"su_lookup", "done"}
           /\ Done(p) =>
                /\ req[p].resp.data = Undefined
                /\ IF ValidSignup(p)
                   THEN Answered(p, 409, "Username already taken")
                   ELSE Answered(p, 400,
                                 "Password must be at least 6 characters")
           /\ Cardinality({i \in DOMAIN users :
                             users[i].username = req[p].body.username}) = 1

\* C2's case: a well-formed signup for a registered username was refused
C2_Witness ==
    \E p \in Procs :
        /\ req[p].op = "signup" /\ req[p].was.taken
        /\ Answered(p, 409, "Username already taken")

(* C3: of two concurrent signups for the same unused username one         *)
(* succeeds and the other fails with the conflict error: a well-formed    *)
(* signup whose username was free when it arrived (and that was let       *)
(* through the dbReady gate) is answered 201 or 409 'Username already     *)
(* taken', whatever the interleaving.                                     *)
C3_RaceLoserAnswersConflict ==
    \A p \in Procs :
        /\ Done(p)
        /\ ValidSignup(p)
        /\ ~req[p].was.taken
        /\ req[p].resp.status # 503
        => \/ req[p].resp.status = 201
           \/ Answered(p, 409, "Username already taken")

(* C4: in every step the users table holds at most one row per username   *)
(* and keeps every row it has: the password hash stored for a username is *)
(* the one its creating signup wrote, never a later signup's.             *)
C4_UniqueAndNeverOverwritten ==
    [][ /\ \A i, j \in DOMAIN users' :
              users'[i].username = users'[j].username => i = j
        /\ \A i \in DOMAIN users :
              i \in DOMAIN users' /\ users'[i] = users[i] ]_vars

\* C4's case: a signup with another password for a registered username has
\* been refused (by the lookup or by the unique constraint) and the stored
\* hash is still the first signup's
C4_Witness ==
    \E p \in Procs :
        /\ Done(p)
        /\ ValidSignup(p)
        /\ req[p].resp.status \in {409, 500}
        /\ getUserByUsername(req[p].body.username) # Null
        /\ getUserByUsername(req[p].body.username).passwordHash
             # Hash(req[p].body.password)

(* C5: a login for a registered username with a password that does not    *)
(* match and a login for a username that is not registered get the same   *)
(* response, 401 'Invalid credentials'.                                   *)
C5_LoginFailuresIdentical ==
    \A p \in Procs :
        /\ Done(p)
        /\ Alone(p)
        /\ req[p].op = "login"
        /\ req[p].resp.status # 503
        /\ \/ req[p].user = Null
           \/ req[p].user.passwordHash # Hash(req[p].body.password)
        => Answered(p, 401, "Invalid credentials")

\* the handler p holds a request to a protected route whose session carries
\* no username
Unauthenticated(p) ==
    Busy(p) /\ req[p].op \in Protected /\ Falsy(req[p].sess)

(* C6, as stated: every protected request whose session carries no        *)
(* username is answered 401 'Not authenticated'.                          *)
C6_UnauthenticatedAnswers401 ==
    \A p \in Procs :
        Unauthenticated(p) => Answered(p, 401, "Not authenticated")

(* C6, amended: every protected request whose session carries no username *)
(* is answered in the step in which it arrives, with 401 'Not             *)
(* authenticated' or, while the database is not ready, with 503 'Service  *)
(* temporarily unavailable'; that step leaves the users table, the        *)
(* messages table and the session store as they were, and the request is  *)
(* never in flight at a store call.                                       *)
C6_GuardFailsClosed ==
    [][ \A p \in Procs :
          Unauthenticated(p)' =>
            /\ IF dbReady'
               THEN Answered(p, 401, "Not authenticated")'
               ELSE Answered(p, 503, "Service temporarily unavailable")'
            /\ req'[p].resp.data = Undefined
            /\ ~Busy(p) => UNCHANGED <<users, messages, sessions>> ]_vars

\* C6's case: a send without an authenticated session was answered 401
C6_Witness ==
    \E p \in Procs :
        /\ req[p].op = "send"
        /\ Falsy(req[p].sess)
        /\ SendValidation(req[p].body.toUser, req[p].body.subject,
                          req[p].body.body, req[p].sess) = ""
        /\ Answered(p, 401, "Not authenticated")

(* C7: after a logout on an authenticated session, and until a login or a *)
(* signup binds the session again, the session store holds no username    *)
(* for the cookie, every protected request that arrives with it is        *)
(* answered 401 'Not authenticated' and whoami answers anonymous.         *)
C7_LoggedOutStaysOut ==
    \A c \in Clients :
        loggedOut[c] =>
            /\ sessions[c] = Undefined
            /\ \A p \in Procs :
                 Busy(p) /\ req[p].client = c /\ req[p].was.afterLogout =>
                    /\ req[p].op \in Protected
                         => Answered(p, 401, "Not authenticated")
                    /\ req[p].op = "me"
                         => /\ Answered(p, 200, "")
                            /\ req[p].resp.data.authenticated = FALSE

\* C7's case: a protected request after the logout of a session that was
\* bound to a registered user was answered 401
C7_Witness ==
    \E p \in Procs :
        /\ Answered(p, 401, "Not authenticated")
        /\ req[p].op = "inbox"
        /\ req[p].was.afterLogout
        /\ loggedOut[req[p].client]
        /\ users # <<>>

\* the rows rs contain the row m
Contains(rs, m) == \E i \in DOMAIN rs : rs[i] = m

(* C8: after an accepted send by A to B, in every later state, inbox(B)   *)
(* and sent(A) contain the message and inbox(A) and sent(B) do not: the   *)
(* row an accepted send answers with carries the sender's session         *)
(* username and the submitted recipient, subject and body; every row of   *)
(* the table is in every result of the recipient's inbox query and of the *)
(* sender's sent query and in no result of the sender's inbox query or    *)
(* the recipient's sent query; and inbox and sent answer with such a      *)
(* result.                                                                *)
C8_SendReachesInboxAndSent ==
    /\ \A p \in Procs :
         Done(p) /\ req[p].op = "send" /\ req[p].resp.status = 201 =>
            /\ req[p].resp.data \in DOMAIN messages
            /\ messages[req[p].resp.data] =
                 [id |-> req[p].resp.data,
                  fromUser |-> req[p].sess,
                  toUser |-> req[p].body.toUser,
                  subject |-> req[p].body.subject,
                  body |-> req[p].body.body,
                  createdAt |-> messages[req[p].resp.data].createdAt]
    /\ \A i \in DOMAIN messages :
         /\ \A rs \in getMessagesForUser(messages[i].toUser) :
              Contains(rs, messages[i])
         /\ \A rs \in getMessagesFromUser(messages[i].fromUser) :
              Contains(rs, messages[i])
         /\ \A rs \in getMessagesForUser(messages[i].fromUser) :
              ~Contains(rs, messages[i])
         /\ \A rs \in getMessagesFromUser(messages[i].toUser) :
              ~Contains(rs, messages[i])
    /\ \A p \in Procs :
         /\ Done(p) /\ req[p].op = "inbox" /\ req[p].resp.status = 200
              => req[p].resp.data \in getMessagesForUser(req[p].sess)
         /\ Done(p) /\ req[p].op = "sent" /\ req[p].resp.status = 200
              => req[p].resp.data \in getMessagesFromUser(req[p].sess)

\* C8's case: bob's inbox answers with a message alice sent him, next to a
\* message bob sent that is not in it
C8_Witness ==
    \E p \in Procs :
        /\ Done(p) /\ req[p].op = "inbox" /\ req[p].sess = "bob"
        /\ \E i \in DOMAIN req[p].resp.data :
             req[p].resp.data[i].fromUser = "alice"
        /\ \E i \in DOMAIN messages : messages[i].fromUser = "bob"

\* the handler p holds a send request of an authenticated session
AuthenticatedSend(p) ==
    Busy(p) /\ req[p].op = "send" /\ ~Falsy(req[p].sess)

(* C9: a send whose toUser is the sender's own username is answered 400   *)
(* in the step in which it arrives, which leaves the messages table       *)
(* unchanged; no row of the table has from_user = to_user.                *)
C9_SelfSendRejected ==
    [][ /\ \A p \in Procs :
             AuthenticatedSend(p)' /\ req'[p].body.toUser = req'[p].sess =>
                /\ Done(p)'
                /\ req'[p].resp.status = 400
                /\ req'[p].resp.data = Undefined
                /\ ~Busy(p) => UNCHANGED messages
        /\ \A i \in DOMAIN messages' :
             messages'[i].fromUser # messages'[i].toUser ]_vars

\* C9's case: alice, with messages in the table, sent to alice and got 400
C9_Witness ==
    \E p \in Procs :
        /\ AuthenticatedSend(p)
        /\ req[p].body.toUser = req[p].sess
        /\ Answered(p, 400, "Cannot send message to yourself")
        /\ messages # <<>>

(* C10: a send by an authenticated identity in which toUser, subject or   *)
(* body is missing or empty is answered 400 in the step in which it       *)
(* arrives, which leaves the messages table unchanged; every row of the   *)
(* table has a non-empty to_user, subject and body.                       *)
C10_MissingFieldRejected ==
    [][ /\ \A p \in Procs :
             /\ AuthenticatedSend(p)'
             /\ \/ Falsy(req'[p].body.toUser)
                \/ Falsy(req'[p].body.subject)
                \/ Falsy(req'[p].body.body)
             => /\ Answered(p, 400, "toUser, subject, and body are required")'
                /\ req'[p].resp.data = Undefined
                /\ ~Busy(p) => UNCHANGED messages
        /\ \A i \in DOMAIN messages' :
             /\ ~Falsy(messages'[i].toUser)
             /\ ~Falsy(messages'[i].subject)
             /\ ~Falsy(messages'[i].body) ]_vars

\* C10's case: a send with an empty subject was answered 400
C10_Witness ==
    \E p \in Procs :
        /\ AuthenticatedSend(p)
        /\ req[p].body.subject = ""
        /\ ~Falsy(req[p].body.toUser) /\ ~Falsy(req[p].body.body)
        /\ Answered(p, 400, "toUser, subject, and body are required")
        /\ messages # <<>>

\* the send request of handler p has non-empty fields and a recipient other
\* than its sender
WellFormedSend(p) ==
    /\ AuthenticatedSend(p)
    /\ ~Falsy(req[p].body.toUser)
    /\ ~Falsy(req[p].body.subject)
    /\ ~Falsy(req[p].body.body)
    /\ req[p].body.toUser # req[p].sess

(* C11: a send with non-empty fields to a recipient other than the sender *)
(* is accepted and persisted whether or not an account with the           *)
(* recipient's username exists: such a request is never rejected, it goes *)
(* on to the insert and is answered 201; the row it answers with carries  *)
(* the submitted recipient name and is in every result of the sender's    *)
(* sent query.                                                            *)
C11_SendNeedsNoRecipientAccount ==
    \A p \in Procs :
        WellFormedSend(p) =>
           /\ req[p].pc \in {"sm_insert", "done"}
           /\ Done(p) =>
                /\ Answered(p, 201, "")
                /\ req[p].resp.data \in DOMAIN messages
                /\ messages[req[p].resp.data].toUser = req[p].body.toUser
                /\ messages[req[p].resp.data].fromUser = req[p].sess
                /\ \A rs \in getMessagesFromUser(req[p].sess) :
                      Contains(rs, messages[req[p].resp.data])

\* C11's case: a send to carol, who has no account, was answered 201
C11_Witness ==
    \E p \in Procs :
        /\ WellFormedSend(p)
        /\ req[p].body.toUser = "carol"
        /\ getUserByUsername("carol") = Null
        /\ Answered(p, 201, "")
        /\ \E i \in DOMAIN messages : messages[i].toUser = "carol"

\* every result the inbox query or the sent query of a user of the table
\* may return, and every result such a query has answered with
Retrievals ==
    UNION { getMessagesForUser(messages[i].toUser)
              \cup getMessagesFromUser(messages[i].fromUser) :
            i \in DOMAIN messages }
    \cup { req[p].resp.data : p \in { q \in Procs :
              /\ Done(q) /\ req[q].op \in {"inbox", "sent"}
              /\ req[q].resp.status = 200 } }

(* C12: for messages with pairwise distinct creation times, the inbox     *)
(* query and the sent query return them in strictly descending creation   *)
(* time: in every result, a row that stands before a row of another       *)
(* creation time is the newer of the two.                                 *)
C12_NewestFirst ==
    \A rs \in Retrievals :
        \A i, j \in DOMAIN rs :
            i < j /\ rs[i].createdAt # rs[j].createdAt =>
               rs[i].createdAt > rs[j].createdAt

\* C12's case: an inbox answered with two messages of different creation
\* times
C12_Witness ==
    \E p \in Procs :
        /\ Done(p) /\ req[p].op = "inbox" /\ req[p].resp.status = 200
        /\ Len(req[p].resp.data) = 2
        /\ req[p].resp.data[1].createdAt > req[p].resp.data[2].createdAt

(* C13: when several messages carry the same creation timestamp,          *)
(* retrieval returns them in descending id order, the later inserted      *)
(* first; ids are unique and increase with insertion order.  Stated for   *)
(* the results inbox and sent have answered with and for the rows of the  *)
(* table.                                                                 *)
C13_TiesLatestInsertedFirst ==
    /\ \A p \in Procs :
         Done(p) /\ req[p].op \in {"inbox", "sent"} /\ req[p].resp.status = 200
            => \A i, j \in DOMAIN req[p].resp.data :
                   /\ i < j
                   /\ req[p].resp.data[i].createdAt =
                        req[p].resp.data[j].createdAt
                   => req[p].resp.data[i].id > req[p].resp.data[j].id
    /\ \A i, j \in DOMAIN messages :
         i < j => messages[i].id < messages[j].id

(* C14: list recipients returns, in ascending order, exactly the          *)
(* usernames of all accounts created by signup except the caller's own.   *)
(* Stated for the part of it that signup decides: every account in the    *)
(* users table other than the caller's is in the list that GET /users     *)
(* answers with, when no other request is under way.                      *)
C14_ListsEverySignedUpUser ==
    \A p \in Procs :
        /\ Done(p) /\ Alone(p)
        /\ req[p].op = "users" /\ req[p].resp.status = 200
        => \A i \in DOMAIN users :
               users[i].username # req[p].sess =>
                  \E k \in DOMAIN req[p].resp.data :
                      req[p].resp.data[k] = users[i].username

(* C15, as stated: in every server state (session authenticated,         *)
(* anonymous or already destroyed), also when the session destroy reports *)
(* an error, logout answers with the acknowledgement and afterwards the   *)
(* session carries no username.                                           *)
C15_LogoutLeavesNoUsername ==
    \A p \in Procs :
        Done(p) /\ req[p].op = "logout" =>
           /\ Answered(p, 200, "")
           /\ req[p].resp.data = "Logged out"
           /\ sessions[req[p].client] = Undefined

(* C15, amended: once the database is initialized logout never fails: in  *)
(* every state, also when the session destroy reports an error, a logout  *)
(* goes on to destroy the session and is then answered 200 'Logged out';  *)
(* the step that answers either leaves the session without a username or, *)
(* when destroy reported an error, leaves the session table as it was.    *)
(* While the database is initializing a logout is answered 503.           *)
C15_LogoutAlwaysAcknowledged ==
    [][ \A p \in Procs :
          /\ req'[p].op = "logout" /\ ~Busy(p) /\ Busy(p)' =>
                IF dbReady
                THEN req'[p].pc = "lo_destroy"
                ELSE Answered(p, 503, "Service temporarily unavailable")'
          /\ req[p].pc = "lo_destroy" /\ req'[p] # req[p] =>
                /\ Answered(p, 200, "")'
                /\ req'[p].resp.data = "Logged out"
                /\ \/ sessions'[req[p].client] = Undefined
                   \/ faults /\ sessions' = sessions ]_vars

\* C15's case: the logout of an authenticated session was acknowledged
\* although destroy reported an error, and the session still carries its
\* username
C15_Witness ==
    \E p \in Procs :
        /\ Answered(p, 200, "") /\ req[p].op = "logout"
        /\ req[p].resp.data = "Logged out"
        /\ req[p].was.sess # Undefined
        /\ sessions[req[p].client] = req[p].was.sess

(* C16, as stated: whoami never fails; in every server state it answers   *)
(* the identity bound to the session or the anonymous marker, never an    *)
(* error response.                                                        *)
C16_WhoamiNeverErrors ==
    \A p \in Procs :
        Done(p) /\ req[p].op = "me" =>
           req[p].resp.status = 200 /\ req[p].resp.error = ""

(* C16, amended: once the database is initialized whoami never fails: it  *)
(* is answered, in the step in which it arrives, 200 with the username    *)
(* bound to the caller's session or with the anonymous marker; while the  *)
(* database is initializing it is answered 503.  Either way the step      *)
(* changes neither the session table nor the store.                       *)
C16_WhoamiAnswersAndChangesNothing ==
    [][ \A p \in Procs :
          req'[p].op = "me" /\ ~Busy(p) /\ Busy(p)' =>
             /\ IF dbReady
                THEN /\ Answered(p, 200, "")'
                     /\ req'[p].resp.data =
                          IF sessions[req'[p].client] # Undefined
                          THEN [authenticated |-> TRUE,
                                user |-> sessions[req'[p].client]]
                          ELSE [authenticated |-> FALSE, user |-> Undefined]
                ELSE Answered(p, 503, "Service temporarily unavailable")'
             /\ UNCHANGED <<sessions, users, messages, dbReady>> ]_vars

\* C16's case: whoami answered with the identity of an authenticated
\* session, with a user row in the store
C16_Witness ==
    \E p \in Procs :
        /\ Answered(p, 200, "") /\ req[p].op = "me"
        /\ req[p].resp.data.authenticated
        /\ req[p].resp.data.user = sessions[req[p].client]
        /\ users # <<>>

\* this step answers a signup or login of the session of client c with
\* success
Authenticates(c) ==
    \E p \in Procs :
        /\ req[p].pc = "save" /\ req[p].client = c
        /\ req[p].op \in {"signup", "login"}
        /\ Done(p)' /\ req'[p].resp.status \in {200, 201}
        /\ sessions'[c] = req[p].body.username

\* this step answers a logout of the session of client c, or is the expiry
\* of a session (no handler moves)
LogsOutOrExpires(c) ==
    \/ \E p \in Procs :
          req[p].pc = "lo_destroy" /\ req[p].client = c /\ Done(p)'
    \/ req' = req

(* C17, as stated: a session is Anonymous or Authenticated(username); it  *)
(* moves from Anonymous to Authenticated only by a successful login or    *)
(* signup and leaves Authenticated only by going to Anonymous through     *)
(* logout or expiry; the username bound to an authenticated session never *)
(* changes while it stays authenticated.                                  *)
C17_UsernameFixedWhileAuthenticated ==
    [][ \A c \in Clients :
          sessions'[c] # sessions[c] =>
             \/ sessions[c] = Undefined /\ Authenticates(c)
             \/ sessions'[c] = Undefined /\ LogsOutOrExpires(c) ]_vars

(* C17, amended: a session is Anonymous or Authenticated(username); it    *)
(* comes to be bound to a username, whether it was Anonymous or bound to  *)
(* another username, only in the step that answers a signup or login made *)
(* with it with success, and the username is the one of that request; it  *)
(* becomes Anonymous only through a logout made with it or through        *)
(* expiry.  No other step changes it.                                     *)
C17_SessionTransitions ==
    [][ \A c \in Clients :
          /\ sessions'[c] \in ValidUsernames \cup {Undefined}
          /\ sessions'[c] # sessions[c] =>
                IF sessions'[c] = Undefined
                THEN LogsOutOrExpires(c)
                ELSE Authenticates(c) ]_vars

\* C17's case: a signup made with a session bound to another username was
\* answered 201 and the session is now bound to the new username
C17_Witness ==
    \E p \in Procs :
        /\ Answered(p, 201, "") /\ req[p].op = "signup"
        /\ req[p].was.sess # Undefined
        /\ req[p].was.sess # req[p].body.username
        /\ sessions[req[p].client] = req[p].body.username

\* the operations that are not signup, login or logout
SessionReaders == {"me", "users", "send", "inbox", "sent"}

(* C18: only signup, login and logout change session state: every step of *)
(* a handler serving whoami, list recipients, send, inbox or sent, from   *)
(* the guard requireAuth to the answer, whether it succeeds or fails,     *)
(* leaves the username bound to every session unchanged; and a step that  *)
(* changes a session is a step of a handler serving signup, login or      *)
(* logout, or the expiry of a session.                                    *)
C18_OnlyAuthChangesSessions ==
    [][ /\ \A p \in Procs :
             /\ req'[p] # req[p]
             /\ req[p].op \in SessionReaders \/ req'[p].op \in SessionReaders
             => sessions' = sessions
        /\ sessions' # sessions =>
             \/ req' = req
             \/ \E p \in Procs :
                   /\ req'[p] # req[p]
                   /\ req[p].op \in {"signup", "login", "logout"} ]_vars

\* C18's case: an inbox was answered to an authenticated session, which is
\* still bound to the same username
C18_Witness ==
    \E p \in Procs :
        /\ Answered(p, 200, "") /\ req[p].op = "inbox"
        /\ req[p].sess # Undefined
        /\ sessions[req[p].client] = req[p].sess

\* the handler p holds a signup whose username is missing or shorter than 3
\* characters or whose password is missing or shorter than 6 characters
MalformedSignup(p) ==
    /\ Busy(p) /\ req[p].op = "signup"
    /\ \/ req[p].body.username = Undefined
       \/ Len(req[p].body.username) < 3
       \/ req[p].body.password = Undefined
       \/ Len(req[p].body.password) < 6

(* C19, as stated: a signup with a username shorter than 3 characters or  *)
(* a password shorter than 6 characters, or either missing, fails with a  *)
(* validation error.                                                      *)
C19_MalformedSignupAnswers400 ==
    \A p \in Procs :
        MalformedSignup(p) /\ Done(p) => req[p].resp.status = 400

(* C19, amended: such a signup is answered in the step in which it        *)
(* arrives, before any store access, with a validation error (400) or,    *)
(* while the database is initializing, with 503; that step inserts no     *)
(* user row and leaves every session binding unchanged.                   *)
C19_MalformedSignupRejectedAtOnce ==
    [][ \A p \in Procs :
          MalformedSignup(p)' =>
             /\ Done(p)'
             /\ req'[p].resp.data = Undefined
             /\ ~Busy(p) =>
                  /\ IF dbReady
                     THEN /\ req'[p].resp.status = 400
                          /\ req'[p].resp.error \in
                               {"Username must be at least 3 characters",
                                "Password must be at least 6 characters"}
                     ELSE Answered(p, 503, "Service temporarily unavailable")'
                  /\ UNCHANGED <<users, sessions, messages>> ]_vars

\* C19's case: a signup with a short password, made with an authenticated
\* session, was answered 400 and the session is bound as before
C19_Witness ==
    \E p \in Procs :
        /\ MalformedSignup(p)
        /\ Answered(p, 400, "Password must be at least 6 characters")
        /\ req[p].was.sess # Undefined
        /\ sessions[req[p].client] = req[p].was.sess
        /\ users # <<>>

(* C20: stored data is append-only: every step keeps every message row    *)
(* (id, from_user, to_user, subject, body, created_at) and every user row *)
(* (username, password hash) in its place with the same fields, and the   *)
(* only change to a table is one row added at its end.                    *)
C20_StoredDataAppendOnly ==
    [][ /\ \A i \in DOMAIN messages :
             i \in DOMAIN messages' /\ messages'[i] = messages[i]
        /\ \A i \in DOMAIN users :
             i \in DOMAIN users' /\ users'[i] = users[i]
        /\ Len(messages') \in {Len(messages), Len(messages) + 1}
        /\ Len(users') \in {Len(users), Len(users) + 1} ]_vars

\* C20's case: with a message row and two user rows stored, a signup of a
\* registered username has failed
C20_Witness ==
    \E p \in Procs :
        /\ Answered(p, 409, "Username already taken")
        /\ messages # <<>>
        /\ Len(users) = 2

(* C21: every stored message's from_user is the username bound to the     *)
(* sending request's session when the guard passed, whatever the request  *)
(* body says: the row an accepted send answers with carries the username  *)
(* the session had when the request arrived, and every from_user in the   *)
(* store is the username of a row of the users table and differs from the *)
(* message's to_user.                                                     *)
C21_SenderIsSessionUser ==
    /\ \A p \in Procs :
         Done(p) /\ req[p].op = "send" /\ req[p].resp.status = 201 =>
            /\ req[p].resp.data \in DOMAIN messages
            /\ messages[req[p].resp.data].fromUser = req[p].was.sess
    /\ \A i \in DOMAIN messages :
         /\ \E k \in DOMAIN users : users[k].username = messages[i].fromUser
         /\ messages[i].fromUser # messages[i].toUser

\* C21's case: a send whose body names another sender was accepted and
\* stored under the session's username
C21_Witness ==
    \E p \in Procs :
        /\ Answered(p, 201, "") /\ req[p].op = "send"
        /\ req[p].body.fromUser = "zoe"
        /\ messages[req[p].resp.data].fromUser = req[p].was.sess
        /\ req[p].was.sess \in ValidUsernames

\* this step answers the send of handler p with success
AcceptsSend(p) ==
    /\ req[p].pc = "sm_insert"
    /\ Done(p)' /\ req'[p].resp.status = 201

(* C22: concurrent sends are independent: under every interleaving, the   *)
(* step that accepts a send adds exactly one row at the end of the table, *)
(* with an id no other row has and with that request's sender, recipient, *)
(* subject and body, and answers with that id; the table changes in no    *)
(* other step; the ids of the table are pairwise different.               *)
C22_ConcurrentSendsIndependent ==
    [][ /\ \A p \in Procs :
             AcceptsSend(p) =>
                /\ Len(messages') = Len(messages) + 1
                /\ \A i \in DOMAIN messages : messages'[i] = messages[i]
                /\ LET row == messages'[Len(messages')]
                   IN  /\ row.id = req'[p].resp.data
                       /\ \A i \in DOMAIN messages : messages[i].id # row.id
                       /\ row.fromUser = req[p].sess
                       /\ row.toUser = req[p].body.toUser
                       /\ row.subject = req[p].body.subject
                       /\ row.body = req[p].body.body
        /\ messages' # messages => \E p \in Procs : AcceptsSend(p)
        /\ \A i, j \in DOMAIN messages' :
             messages'[i].id = messages'[j].id => i = j ]_vars

\* C22's case: a send was accepted while another send of the same sender,
\* with another subject, was waiting for its insert
C22_Witness ==
    \E p, q \in Procs :
        /\ Answered(p, 201, "") /\ req[p].op = "send"
        /\ req[q].pc = "sm_insert"
        /\ req[q].sess = req[p].sess
        /\ req[q].body.subject # req[p].body.subject

-----------------------------------------------------------------------------
(* C23: when the store fails during send, inbox or sent, the caller gets   *)
(* the handler's fixed failure response, which carries nothing of the      *)
(* internal error; the handler ends with that response (the operation is   *)
(* not tried again); no message row is added or changed, and the sessions  *)
(* are as they were before.                                                *)

\* the await on the store of a send, inbox or sent handler
StoreAwaits == {"sm_insert", "ib_query", "st_query"}

\* the fixed failure text of each of the three handlers
GenericFailure(op) ==
    CASE op = "send" -> "Failed to send message"
      [] op = "inbox" -> "Failed to get messages"
      [] op = "sent" -> "Failed to get sent messages"
      [] OTHER -> Undefined

\* this step is the failure of the store operation of handler p
StoreFails(p) ==
    /\ req[p].pc \in StoreAwaits
    /\ req'[p].pc = "done"
    /\ req'[p].resp.status \notin {200, 201}

C23_StoreFailureIsOpaque ==
    [][\A p \in Procs :
         /\ req[p].pc \in StoreAwaits /\ req'[p] # req[p] => req'[p].pc = "done"
         /\ StoreFails(p) =>
               /\ req'[p].resp.status = 500
               /\ req'[p].resp.error = GenericFailure(req[p].op)
               /\ req'[p].resp.data = Undefined
               /\ messages' = messages
               /\ users' = users
               /\ sessions' = sessions
               /\ req'[p].sess = req[p].sess]_vars

\* a send of a logged-in user has failed at the store, no row was written
\* and the caller's session is still bound
C23_Witness ==
    \E p \in Procs :
       /\ Answered(p, 500, "Failed to send message")
       /\ messages = <<>>
       /\ sessions[req[p].client] # Undefined
       /\ sessions[req[p].client] = req[p].sess

-----------------------------------------------------------------------------
(* C24: while dbReady is false every arriving request is answered 503 at   *)
(* once and no handler gets to an await on the store, so both tables are   *)
(* untouched; dbReady changes only from false to true (so at most once);   *)
(* when the initialization fails the process ends with dbReady still       *)
(* false, and an ended process takes no step at all.                       *)

\* a request arrives at handler p in this step
Arrives(p) == req[p].pc = "idle" /\ req'[p].pc # "idle"

C24_NothingServedBeforeDbReady ==
    [][/\ \A p \in Procs :
            Arrives(p) /\ ~dbReady =>
               /\ req'[p].pc = "done"
               /\ req'[p].resp =
                    [NoResponse EXCEPT
                       !.status = 503,
                       !.error = "Service temporarily unavailable"]
       /\ ~dbReady' =>
            /\ users' = <<>> /\ messages' = <<>>
            /\ \A p \in Procs : req'[p].pc \in {"idle", "done"}
            /\ \A c \in Clients : sessions'[c] = Undefined
       /\ dbReady' # dbReady => ~dbReady /\ dbReady' /\ ~exited'
       /\ exited' # exited => ~exited /\ exited' /\ ~dbReady'
       /\ ~exited]_vars

\* a request was answered 503 while the initialization was pending, then
\* the initialization failed and the process ended
C24_Witness ==
    /\ exited
    /\ ~dbReady
    /\ \E p \in Procs :
         Answered(p, 503, "Service temporarily unavailable")
           /\ req[p].op = "signup"

-----------------------------------------------------------------------------
(* C29: a login attempt that fails leaves every session as it was (a bound *)
(* session stays bound to the same username, an anonymous one stays        *)
(* anonymous) and writes nothing to the users or the messages table: no    *)
(* step of a login handler other than its successful answer changes any of *)
(* them.                                                                   *)

\* this step is one of login handler p
LoginStep(p) ==
    /\ req'[p] # req[p]
    /\ req[p].op = "login" \/ req'[p].op = "login"

\* this step is the successful answer of login handler p
LoginSucceeds(p) == req'[p].pc = "done" /\ req'[p].resp.status = 200

C29_FailedLoginChangesNothing ==
    [][\A p \in Procs :
         LoginStep(p) /\ ~LoginSucceeds(p) =>
            /\ sessions' = sessions
            /\ loggedOut' = loggedOut
            /\ users' = users
            /\ messages' = messages]_vars

\* a client logged in as alice has tried to log in with a username that
\* has no account; the attempt was refused and the session is still alice's
C29_Witness ==
    \E p \in Procs :
       /\ Answered(p, 401, "Invalid credentials")
       /\ req[p].op = "login"
       /\ req[p].was.sess = "alice"
       /\ sessions[req[p].client] = "alice"

-----------------------------------------------------------------------------
(* C30: signup is not atomic across the insert of the user row and the     *)
(* save of the session: when the save fails after the insert, the request  *)
(* is answered 500 'Failed to create session', the row stays in the table  *)
(* and no session is bound; a later well-formed signup for that username   *)
(* (for any username that is registered when the request arrives) stops at *)
(* the lookup and is answered 409 'Username already taken' whenever the    *)
(* lookup itself answers.                                                  *)

\* this step is the failure of the session save of signup handler p
SignupSaveFails(p) ==
    /\ req[p].op = "signup"
    /\ req[p].pc = "save"
    /\ req'[p].pc = "done"
    /\ req'[p].resp.status # 201

\* this step is the answer of the lookup of a well-formed signup whose
\* username was registered when it arrived
RepeatedSignupAnswered(p) ==
    /\ req[p].op = "signup"
    /\ req[p].was.taken
    /\ req[p].pc = "su_lookup"
    /\ req'[p] # req[p]

C30_SignupNotAtomic ==
    [][\A p \in Procs :
         /\ SignupSaveFails(p) =>
               /\ req'[p].resp.status = 500
               /\ req'[p].resp.error = "Failed to create session"
               /\ req'[p].resp.data = Undefined
               /\ users' = users
               /\ getUserByUsername(req[p].body.username) # Null
               /\ sessions' = sessions
         /\ RepeatedSignupAnswered(p) =>
               /\ req'[p].pc = "done"
               /\ req'[p].resp.status \in {409, 500}
               /\ req'[p].resp.status = 409 =>
                     req'[p].resp.error = "Username already taken"
               /\ req'[p].resp.status = 500 => faults
               /\ users' = users]_vars

\* a signup has been answered 'Failed to create session', its user row is
\* in the table, and the caller has no session
C30_Witness ==
    \E p \in Procs :
       /\ req[p].op = "signup"
       /\ Answered(p, 500, "Failed to create session")
       /\ getUserByUsername(req[p].body.username) # Null
       /\ sessions[req[p].client] = Undefined

-----------------------------------------------------------------------------
(* C25: between two resets of the application (resetApp, or the load of    *)
(* the page) the body of initializeApp, that is the registration of the    *)
(* tab listeners and the initial inbox load, runs at most once, however    *)
(* many times and however closely together initializeApp is invoked.       *)
C25_InitializeAppBodyRunsOnce == client.bodies <= 1

-----------------------------------------------------------------------------
(* C26: the auto-refresh timer issues its inbox request only when the      *)
(* application is initialized, the current tab is the inbox and            *)
(* window.isAuthenticated is true.  A load that fails with 'Not            *)
(* authenticated' clears the flag in the same step, and the flag is set    *)
(* again only by a successful login or signup response or a successful     *)
(* auth check; so from such a failure until then no auto-refresh request   *)
(* is issued.                                                              *)

\* this step issues the inbox request of the auto-refresh
RefreshIssued == client'.tasks["refresh"] > client.tasks["refresh"]

\* this step is the answer to a login, a signup or the auth check
AuthAnswered ==
    \/ client'.tasks["login"] < client.tasks["login"]
    \/ client'.tasks["signup"] < client.tasks["signup"]
    \/ client'.tasks["check"] < client.tasks["check"]

C26_AutoRefreshOnlyWhenAuthenticated ==
    [][/\ RefreshIssued =>
            /\ client.appInitialized
            /\ client.currentTab = "inbox"
            /\ client.isAuthenticated
            /\ ~client.failed
       /\ client'.failed => ~client'.isAuthenticated
       /\ client'.isAuthenticated /\ ~client.isAuthenticated =>
            AuthAnswered /\ client'.view = "in"
       /\ client.failed /\ ~client'.failed =>
            AuthAnswered /\ client'.isAuthenticated]_vars

\* the application is initialized and shows the inbox, a load has failed
\* with 'Not authenticated' (its logout is still to come), and no
\* auto-refresh request is out
C26_Witness ==
    /\ client.failed
    /\ client.appInitialized
    /\ client.currentTab = "inbox"
    /\ client.view = "in"
    /\ Pending("logoutTimer")
    /\ ~Pending("refresh")
    /\ ~RefreshGuard

-----------------------------------------------------------------------------
(* C27: when a load of the inbox, of the sent list or of the user list     *)
(* fails with 'Not authenticated', the page clears window.isAuthenticated  *)
(* in that step and calls window.logout 1.5 s later, so that it reaches    *)
(* the logged-out state (the forms shown, isAuthenticated false,           *)
(* appInitialized false) and stays in it until the user logs in again.     *)

\* the logged-out state
LoggedOutState ==
    /\ client.view = "out"
    /\ ~client.isAuthenticated
    /\ ~client.appInitialized

\* a load has failed with 'Not authenticated', the logout it scheduled has
\* run to its end, and no login, signup or auth check has succeeded since
ForcedOut ==
    /\ client.failed
    /\ ~Pending("logoutTimer")
    /\ ~Pending("logout")

C27_ForcedLogoutStaysLoggedOut == ForcedOut => LoggedOutState

\* the part of C27 that holds, under SpecPageFair: once a load has failed
\* with 'Not authenticated' the logged-out state is reached
ForcedLogoutReached == Pending("logoutTimer") ~> LoggedOutState

-----------------------------------------------------------------------------
(* C28: after a login or signup response the application is initialized    *)
(* only once a /me request has confirmed an authenticated session: the     *)
(* response itself never calls initializeApp nor sets its timer; the timer *)
(* is set only by an answer to /me that reports an authenticated session   *)
(* (to the verification that follows the response, or to the page-load     *)
(* auth check), and the body of initializeApp starts only when that timer  *)
(* fires.  When the verification fails or reports an anonymous session no  *)
(* timer of initializeApp is set, window.isAuthenticated is false from     *)
(* that step until a later login, signup or auth check succeeds, and the   *)
(* page returns to the logged-out view.                                    *)

\* this step is the answer to a login or a signup
LoginOrSignupAnswered ==
    \/ client'.tasks["login"] < client.tasks["login"]
    \/ client'.tasks["signup"] < client.tasks["signup"]

\* this step is the answer to a /me request
MeAnswered ==
    \/ client'.tasks["verify"] < client.tasks["verify"]
    \/ client'.tasks["check"] < client.tasks["check"]

\* this step is the failure of the verification
VerificationFails == client'.tasks["outTimer"] > client.tasks["outTimer"]

====
